---- MODULE Spec2Model ----
(***************************************************************************)
(* Breakup Recovery App (src/app.py): a Streamlit script that resolves an  *)
(* API credential, collects a narrative, screenshots and a consent flag,   *)
(* and on "Get Recovery Plan" constructs four agents, writes the uploaded  *)
(* screenshots to the temporary directory and runs the four agents one     *)
(* after the other, rendering each response.                               *)
(*                                                                         *)
(* The script is re-executed top to bottom for every browser session and   *)
(* every widget interaction.  A session's position in the script is pc[s]; *)
(* the temporary directory fs and the credential sources are shared by all *)
(* sessions of the process.  Widget interactions are taken while the page  *)
(* is at rest (no script run of that session in progress).                 *)
(***************************************************************************)
EXTENDS Integers, Sequences, FiniteSets, TLC

(* ------------------------------ bounds -------------------------------- *)
\* most screenshots one session uploads (one-session specification)
MaxFiles == 4
\* most screenshots one session uploads when two sessions run side by side
MaxSharedFiles == 1

(* ----------------------------- value sets ----------------------------- *)
Sessions == {"s1", "s2"}
Single == {"s1"}

\* Python's None, and the marker for st.secrets.get raising (no secrets file)
NoneVal == "<None>"
Raises == "<raises>"

SecretsStates == {Raises, NoneVal, "", "secret-key"}
EnvStates == {NoneVal, "", "env-key"}

Narratives == {"", "I feel so empty, wahi baatein yaad aa rahi hain"}
FileNames == {"chat.png", "me.jpg"}
Contents == {"reply"}

\* what a file of the temporary directory can hold
Absent == <<"absent">>
Partial == <<"partial">>

(* --------------------------- pure helpers ------------------------------ *)
\* Python truthiness of an optional string
Truthy(v) == v # NoneVal /\ v # ""

\* src/app.py:26-36: secrets first (an exception counts as None), then the
\* environment variable when the secrets value is falsy
ResolveApiKey(sec, ev) ==
    LET fromSecrets == IF sec = Raises THEN NoneVal ELSE sec
    IN  IF Truthy(fromSecrets) THEN fromSecrets ELSE ev

\* src/app.py:200: os.path.join(tempfile.gettempdir(), f"temp_{file.name}")
temp_path(file) == <<"tmp", "temp_", file.name>>

TempPaths == {<<"tmp", "temp_", n>> : n \in FileNames}

\* the four agents in the order the script runs them, by Agent(name=...)
OrderSwapped ==
    <<"Closure Agent", "Therapist Agent", "Routine Planner Agent", "Brutal Honesty Agent">>
Order ==
    <<"Therapist Agent", "Closure Agent", "Routine Planner Agent", "Brutal Honesty Agent">>

NoAgents == <<NoneVal, NoneVal, NoneVal, NoneVal>>

\* the constructor calls of initialize_agents, in program order
InitSteps == <<"Gemini", "Therapist Agent", "Closure Agent", "Routine Planner Agent",
               "Brutal Honesty Agent">>

\* src/app.py:49-119: failAt = 0 when every constructor succeeds, otherwise the
\* index in InitSteps of the constructor that raises.  The except branch
\* reports the error and returns four None.
initialize_agents_partial(failAt) ==
    IF failAt = 0
    THEN [agents |-> Order, errors |-> <<>>]
    ELSE [agents |-> [k \in 1..4 |-> IF k + 1 < failAt THEN Order[k] ELSE NoneVal],
          errors |-> <<[kind |-> "error", text |-> "Error initializing agents"]>>]
initialize_agents(failAt) ==
    IF failAt = 0
    THEN [agents |-> Order, errors |-> <<>>]
    ELSE [agents |-> NoAgents,
          errors |-> <<[kind |-> "error", text |-> "Error initializing agents"]>>]

\* all([...]) over the four returned values (agent objects are truthy)
AllAgents(t) == \A k \in 1..4 : t[k] # NoneVal

\* src/app.py:219-228, 235-244, 251-260, 267-276: the f-string of section k
\* is its fixed text with user_input interpolated
PromptHead == <<"Analyze the emotional state based on: User's message: ",
                "Create emotional closure content based on: User's feelings: ",
                "Design a 7-day recovery plan based on: ",
                "Provide honest feedback about: ">>
PromptTail == <<"Provide: validation, comfort, relatable experiences, encouragement",
                "Include: unsent messages, release exercises, closure rituals, guidance",
                "Include: daily activities, self-care, detox guidelines, music",
                "Include: objective analysis, growth, outlook, action steps">>
Prompt(k, text) == <<PromptHead[k], text, PromptTail[k]>>

\* st.subheader of section k
Heading == <<"Emotional Support", "Finding Closure", "Your Recovery Plan",
             "Honest Perspective">>

ConsentInfo == [kind |-> "info", text |-> "Please provide consent to proceed"]
ConsentWarning == [kind |-> "warning", text |-> "You must give consent"]
InitError == [kind |-> "error", text |-> "Failed to initialize agents"]
EmptyWarning == [kind |-> "warning", text |-> "Please share your feelings or upload screenshots"]
KeyError == [kind |-> "error", text |-> "Gemini API key not found"]
SecretsHint == [kind |-> "code", text |-> "st.secrets['gemini_api_key']"]
EnvHint == [kind |-> "code", text |-> "export GEMINI_API_KEY"]
Uncaught == [kind |-> "exception", text |-> "uncaught exception"]

(* ------------------------------- state -------------------------------- *)
VARIABLES
    secrets,         \* st.secrets["gemini_api_key"], or Raises
    env,             \* os.environ["GEMINI_API_KEY"]
    fs,              \* the temporary directory: path -> bytes
    pc,              \* per session: position of the script run
    consent,         \* per session: the consent checkbox
    user_input,      \* per session: the text area
    uploaded_files,  \* per session: the file uploader's files, in upload order
    agents,          \* per session: the four values initialize_agents returned
    all_images,      \* per session: processed_images / all_images
    written,         \* per session: outcome of each file processed so far
    logged,          \* per session: logger.error records of this script run
    notices,         \* per session: st.info/warning/error/code shown by this run
    invoked,         \* per session: the agent.run calls of this run, in order
    rendered         \* per session: the output sections shown by this run

vars == <<secrets, env, fs, pc, consent, user_input, uploaded_files, agents,
          all_images, written, logged, notices, invoked, rendered>>

widgets == <<consent, user_input, uploaded_files>>
cycle == <<agents, all_images, written, logged, invoked, rendered>>

api_key == ResolveApiKey(secrets, env)

AtRest(s) == pc[s] \in {"ready", "aborted", "crashed", "done"}

Init ==
    /\ secrets \in SecretsStates
    /\ env \in EnvStates
    /\ fs = [p \in TempPaths |-> Absent]
    /\ pc = [s \in Sessions |-> "start"]
    /\ consent = [s \in Sessions |-> FALSE]
    /\ user_input = [s \in Sessions |-> ""]
    /\ uploaded_files = [s \in Sessions |-> <<>>]
    /\ agents = [s \in Sessions |-> NoAgents]
    /\ all_images = [s \in Sessions |-> <<>>]
    /\ written = [s \in Sessions |-> <<>>]
    /\ logged = [s \in Sessions |-> <<>>]
    /\ notices = [s \in Sessions |-> <<>>]
    /\ invoked = [s \in Sessions |-> <<>>]
    /\ rendered = [s \in Sessions |-> <<>>]

\* a fresh script run shows none of the previous run's output
FreshRun(s, shown) ==
    /\ agents' = [agents EXCEPT ![s] = NoAgents]
    /\ all_images' = [all_images EXCEPT ![s] = <<>>]
    /\ written' = [written EXCEPT ![s] = <<>>]
    /\ logged' = [logged EXCEPT ![s] = <<>>]
    /\ invoked' = [invoked EXCEPT ![s] = <<>>]
    /\ rendered' = [rendered EXCEPT ![s] = <<>>]
    /\ notices' = [notices EXCEPT ![s] = shown]

\* src/app.py:144-145
InfoFor(c) == IF c THEN <<>> ELSE <<ConsentInfo>>

(* ------------------------------ actions ------------------------------- *)
\* src/app.py:39-44 and 124-172: the first script run of a session.  Without
\* a key the run ends at st.stop() before any widget is created.
LoadPageNoStop(s) ==
    /\ pc[s] = "start"
    /\ pc' = [pc EXCEPT ![s] = "ready"]
    /\ notices' = [notices EXCEPT ![s] = InfoFor(consent[s])]
    /\ UNCHANGED <<secrets, env, fs, widgets, cycle>>
LoadPage(s) ==
    /\ pc[s] = "start"
    /\ IF ~Truthy(api_key)
       THEN /\ pc' = [pc EXCEPT ![s] = "config_error"]
            /\ notices' = [notices EXCEPT ![s] = <<KeyError, SecretsHint, EnvHint>>]
       ELSE /\ pc' = [pc EXCEPT ![s] = "ready"]
            /\ notices' = [notices EXCEPT ![s] = InfoFor(consent[s])]
    /\ UNCHANGED <<secrets, env, fs, widgets, cycle>>

\* src/app.py:140-146: the checkbox is toggled; the script reruns with the
\* button not pressed
SetConsent(s) ==
    /\ AtRest(s)
    /\ consent' = [consent EXCEPT ![s] = ~consent[s]]
    /\ pc' = [pc EXCEPT ![s] = "ready"]
    /\ FreshRun(s, InfoFor(~consent[s]))
    /\ UNCHANGED <<secrets, env, fs, user_input, uploaded_files>>

\* src/app.py:155-159: the text area is edited
SetNarrative(s) ==
    /\ AtRest(s)
    /\ \E t \in Narratives \ {user_input[s]} :
          user_input' = [user_input EXCEPT ![s] = t]
    /\ pc' = [pc EXCEPT ![s] = "ready"]
    /\ FreshRun(s, InfoFor(consent[s]))
    /\ UNCHANGED <<secrets, env, fs, consent, uploaded_files>>

\* src/app.py:163-172: one more screenshot is uploaded; its bytes are its own
Upload(s, max) ==
    /\ AtRest(s)
    /\ Len(uploaded_files[s]) < max
    /\ \E n \in FileNames :
          uploaded_files' = [uploaded_files EXCEPT ![s] =
              Append(@, [name |-> n, data |-> <<s, Len(@) + 1>>])]
    /\ pc' = [pc EXCEPT ![s] = "ready"]
    /\ FreshRun(s, InfoFor(consent[s]))
    /\ UNCHANGED <<secrets, env, fs, consent, user_input>>

\* src/app.py:177-182: the button is pressed; consent is enforced first
SubmitNoConsentCheck(s) ==
    /\ AtRest(s)
    /\ FreshRun(s, InfoFor(consent[s]))
    /\ pc' = [pc EXCEPT ![s] = "init"]
    /\ UNCHANGED <<secrets, env, fs, widgets>>
Submit(s) ==
    /\ AtRest(s)
    /\ IF ~consent[s]
       THEN /\ FreshRun(s, <<ConsentInfo, ConsentWarning>>)
            /\ pc' = [pc EXCEPT ![s] = "aborted"]
       ELSE /\ FreshRun(s, <<>>)
            /\ pc' = [pc EXCEPT ![s] = "init"]
    /\ UNCHANGED <<secrets, env, fs, widgets>>

\* src/app.py:184-188: construct the agents; stop unless all four exist
InitAgents(s) ==
    /\ pc[s] = "init"
    /\ \E failAt \in 0..Len(InitSteps) :
          LET r == initialize_agents(failAt)
          IN  /\ agents' = [agents EXCEPT ![s] = r.agents]
              /\ IF ~AllAgents(r.agents)
                 THEN /\ notices' = [notices EXCEPT ![s] = @ \o r.errors \o <<InitError>>]
                      /\ pc' = [pc EXCEPT ![s] = "aborted"]
                 ELSE /\ notices' = [notices EXCEPT ![s] = @ \o r.errors]
                      /\ pc' = [pc EXCEPT ![s] = "input"]
    /\ UNCHANGED <<secrets, env, fs, widgets, all_images, written, logged, invoked,
                   rendered>>

\* src/app.py:190-192: nothing to process
CheckInputSkipped(s) ==
    /\ pc[s] = "input"
    /\ pc' = [pc EXCEPT ![s] = "images"]
    /\ UNCHANGED <<secrets, env, fs, widgets, cycle, notices>>
CheckInput(s) ==
    /\ pc[s] = "input"
    /\ IF ~(user_input[s] # "" \/ uploaded_files[s] # <<>>)
       THEN /\ notices' = [notices EXCEPT ![s] = Append(@, EmptyWarning)]
            /\ pc' = [pc EXCEPT ![s] = "aborted"]
       ELSE /\ notices' = notices
            /\ pc' = [pc EXCEPT ![s] = "images"]
    /\ UNCHANGED <<secrets, env, fs, widgets, cycle>>

\* src/app.py:197-210: one iteration of the loop of process_images.  The
\* write succeeds, or it raises: at open() (the file is left as it was) or at
\* f.write() (open() has truncated the file).  A failure is logged and the
\* file is skipped.
WriteOutcomes == {"ok", "failed"}

ProcessImageKeepFailed(s) ==
    /\ pc[s] = "images"
    /\ Len(written[s]) < Len(uploaded_files[s])
    /\ LET file == uploaded_files[s][Len(written[s]) + 1]
       IN  \E o \in WriteOutcomes :
             /\ written' = [written EXCEPT ![s] = Append(@, o)]
             /\ fs' = IF o = "ok" THEN [fs EXCEPT ![temp_path(file)] = file.data]
                      ELSE fs
             /\ all_images' = [all_images EXCEPT ![s] =
                                  Append(@, [filepath |-> temp_path(file)])]
             /\ logged' = logged
    /\ UNCHANGED <<secrets, env, pc, widgets, agents, notices, invoked, rendered>>
ProcessImage(s) ==
    /\ pc[s] = "images"
    /\ Len(written[s]) < Len(uploaded_files[s])
    /\ LET file == uploaded_files[s][Len(written[s]) + 1]
       IN  \E o \in WriteOutcomes :
             /\ written' = [written EXCEPT ![s] = Append(@, o)]
             /\ IF o = "ok"
                THEN /\ fs' = [fs EXCEPT ![temp_path(file)] = file.data]
                     /\ all_images' = [all_images EXCEPT ![s] =
                                          Append(@, [filepath |-> temp_path(file)])]
                     /\ logged' = logged
                ELSE /\ fs' \in {fs, [fs EXCEPT ![temp_path(file)] = Partial]}
                     /\ all_images' = all_images
                     /\ logged' = [logged EXCEPT ![s] =
                                      Append(@, [level |-> "error", name |-> file.name])]
    /\ UNCHANGED <<secrets, env, pc, widgets, agents, notices, invoked, rendered>>

\* src/app.py:213-215: the loop is over (or there was no file): all_images
\* is bound and the plan's header is shown
StartPlan(s) ==
    /\ pc[s] = "images"
    /\ Len(written[s]) = Len(uploaded_files[s])
    /\ pc' = [pc EXCEPT ![s] = "run"]
    /\ UNCHANGED <<secrets, env, fs, widgets, cycle, notices>>

\* src/app.py:229, 245, 261, 277: agent.run(prompt, images=all_images) of the
\* next section.  The agent reads the files behind the handles; the call
\* returns content or raises, and nothing in the script catches the exception:
\* the run ends there and the page shows the exception.
RunAgentAgain(s) ==
    /\ pc[s] = "run"
    /\ LET k == IF Len(invoked[s]) = 0 THEN 1 ELSE Len(invoked[s])
       IN  \E res \in Contents \cup {Raises} :
             /\ invoked' = [invoked EXCEPT ![s] = Append(@,
                    [role |-> agents[s][k],
                     prompt |-> Prompt(k, user_input[s]),
                     images |-> all_images[s],
                     read |-> [i \in DOMAIN all_images[s] |-> fs[all_images[s][i].filepath]],
                     result |-> res])]
             /\ IF res = Raises
                THEN /\ pc' = [pc EXCEPT ![s] = "crashed"]
                     /\ notices' = [notices EXCEPT ![s] = Append(@, Uncaught)]
                ELSE /\ pc' = [pc EXCEPT ![s] = "render"]
                     /\ notices' = notices
    /\ UNCHANGED <<secrets, env, fs, widgets, agents, all_images, written, logged, rendered>>
RunAgent(s) ==
    /\ pc[s] = "run"
    /\ LET k == Len(invoked[s]) + 1
       IN  \E res \in Contents \cup {Raises} :
             /\ invoked' = [invoked EXCEPT ![s] = Append(@,
                    [role |-> agents[s][k],
                     prompt |-> Prompt(k, user_input[s]),
                     images |-> all_images[s],
                     read |-> [i \in DOMAIN all_images[s] |-> fs[all_images[s][i].filepath]],
                     result |-> res])]
             /\ IF res = Raises
                THEN /\ pc' = [pc EXCEPT ![s] = "crashed"]
                     /\ notices' = [notices EXCEPT ![s] = Append(@, Uncaught)]
                ELSE /\ pc' = [pc EXCEPT ![s] = "render"]
                     /\ notices' = notices
    /\ UNCHANGED <<secrets, env, fs, widgets, agents, all_images, written, logged, rendered>>

\* src/app.py:230-231, 246-247, 262-263, 278-279: subheader and
\* st.markdown(response.content) of the section just run; after the fourth
\* the script runs on to the footer and ends
RenderSection(s) ==
    /\ pc[s] = "render"
    /\ LET k == Len(invoked[s])
       IN  /\ rendered' = [rendered EXCEPT ![s] = Append(@,
                  [heading |-> Heading[k], content |-> invoked[s][k].result])]
           /\ pc' = [pc EXCEPT ![s] = IF k = Len(Order) THEN "done" ELSE "run"]
    /\ UNCHANGED <<secrets, env, fs, widgets, agents, all_images, written, logged,
                   notices, invoked>>

(* --------------------------- specifications --------------------------- *)
Step(s, max) ==
    \/ LoadPage(s)
    \/ SetConsent(s)
    \/ SetNarrative(s)
    \/ Upload(s, max)
    \/ Submit(s)
    \/ InitAgents(s)
    \/ CheckInput(s)
    \/ ProcessImage(s)
    \/ StartPlan(s)
    \/ RunAgent(s)
    \/ RenderSection(s)

\* one browser session
Next == \E s \in Single : Step(s, MaxFiles)
Spec == Init /\ [][Next]_vars

\* two browser sessions of the same process, sharing the temporary directory
NextShared == \E s \in Sessions : Step(s, MaxSharedFiles)
SpecShared == Init /\ [][NextShared]_vars

(* ------------------------------ properties ---------------------------- *)
Range(q) == {q[i] : i \in DOMAIN q}

\* a script run started by the button is in progress or has ended
InCycle(s) == pc[s] \in {"init", "input", "images", "run", "render", "aborted",
                         "crashed", "done"}
\* a script run started by the button has ended
Finished(s) == pc[s] \in {"aborted", "crashed", "done"}

EmptyInput(s) == user_input[s] = "" /\ uploaded_files[s] = <<>>

\* the role order and the section of each role, as the specification names them
RoleOrder ==
    <<"Therapist Agent", "Closure Agent", "Routine Planner Agent", "Brutal Honesty Agent">>
SectionOf(role) ==
    CASE role = "Therapist Agent" -> "Emotional Support"
      [] role = "Closure Agent" -> "Finding Closure"
      [] role = "Routine Planner Agent" -> "Your Recovery Plan"
      [] role = "Brutal Honesty Agent" -> "Honest Perspective"
      [] OTHER -> "none"

\* the handles of the files written successfully, in upload order
RECURSIVE KeptHandles(_, _)
KeptHandles(files, outs) ==
    IF outs = <<>> THEN <<>>
    ELSE LET n == Len(outs)
             before == KeptHandles(files, SubSeq(outs, 1, n - 1))
         IN  IF outs[n] = "ok"
             THEN Append(before, [filepath |-> <<"tmp", "temp_", files[n].name>>])
             ELSE before

\* the attachments written successfully, in upload order
RECURSIVE KeptFiles(_, _)
KeptFiles(files, outs) ==
    IF outs = <<>> THEN <<>>
    ELSE LET n == Len(outs)
             before == KeptFiles(files, SubSeq(outs, 1, n - 1))
         IN  IF outs[n] = "ok" THEN Append(before, files[n]) ELSE before

Failures(outs) == Cardinality({i \in DOMAIN outs : outs[i] # "ok"})

\* C1: a submission made while consent is not granted invokes no agent,
\* whatever the narrative and the attachments are: the run stops at the
\* consent check with the consent warning shown, before any agent is
\* constructed and before any image is written.
C1_NoConsentNoAgent ==
    \A s \in Sessions :
        (InCycle(s) /\ ~consent[s]) =>
            /\ pc[s] = "aborted"
            /\ ConsentWarning \in Range(notices[s])
            /\ invoked[s] = <<>>
            /\ rendered[s] = <<>>
            /\ agents[s] = NoAgents
            /\ written[s] = <<>>

C1_Witness ==
    \E s \in Sessions :
        /\ pc[s] = "aborted" /\ ~consent[s]
        /\ user_input[s] # "" /\ Len(uploaded_files[s]) >= 2
        /\ ConsentWarning \in Range(notices[s])

\* C2 as stated: every finished submission with an empty narrative and no
\* attachment invoked no agent, wrote no image, rendered no section and shows
\* a warning.
C2_Original ==
    \A s \in Sessions :
        (Finished(s) /\ EmptyInput(s)) =>
            /\ invoked[s] = <<>>
            /\ rendered[s] = <<>>
            /\ all_images[s] = <<>> /\ written[s] = <<>>
            /\ \E n \in Range(notices[s]) : n.kind = "warning"

\* C2 amended: a submission with an empty narrative and no attachment invokes
\* no agent, writes no image and renders no section, and it ends aborted with
\* a notice: the consent warning without consent, the initialization error
\* (and no warning) when constructing the agents failed, the empty-input
\* warning otherwise.
C2_EmptyInputAborts ==
    \A s \in Sessions :
        (InCycle(s) /\ EmptyInput(s)) =>
            /\ invoked[s] = <<>>
            /\ rendered[s] = <<>>
            /\ all_images[s] = <<>> /\ written[s] = <<>>
            /\ pc[s] \in {"init", "input", "aborted"}
            /\ pc[s] = "aborted" =>
                 IF ~consent[s] THEN ConsentWarning \in Range(notices[s])
                 ELSE IF ~AllAgents(agents[s])
                      THEN /\ InitError \in Range(notices[s])
                           /\ \A n \in Range(notices[s]) : n.kind # "warning"
                      ELSE EmptyWarning \in Range(notices[s])

C2_Witness ==
    \E s \in Sessions :
        /\ pc[s] = "aborted" /\ EmptyInput(s) /\ consent[s]
        /\ AllAgents(agents[s])
        /\ EmptyWarning \in Range(notices[s])

\* C3: a finished submission with consent, a credential, a non-empty narrative
\* or attachment list, and the four agents constructed for the Orchestrator,
\* has invoked exactly the four roles, each once, each with a prompt that
\* contains the narrative and with the full list of materialized images.
C3_FourAgentsInvoked ==
    \A s \in Sessions :
        ( /\ Finished(s) /\ consent[s] /\ Truthy(api_key)
          /\ ~EmptyInput(s)
          /\ AllAgents(agents[s]) ) =>
            /\ Len(invoked[s]) = 4
            /\ \A r \in Range(RoleOrder) :
                  Cardinality({i \in DOMAIN invoked[s] : invoked[s][i].role = r}) = 1
            /\ \A i \in DOMAIN invoked[s] :
                  /\ user_input[s] \in Range(invoked[s][i].prompt)
                  /\ invoked[s][i].images = KeptHandles(uploaded_files[s], written[s])

\* C4: when an agent's invocation fails, every role is still invoked and every
\* role whose invocation returned content is rendered.
C4_FailureIsolated ==
    \A s \in Sessions :
        (Finished(s) /\ \E i \in DOMAIN invoked[s] : invoked[s][i].result = Raises) =>
            /\ {invoked[s][i].role : i \in DOMAIN invoked[s]} = Range(RoleOrder)
            /\ \A i \in DOMAIN invoked[s] :
                  invoked[s][i].result # Raises =>
                      \E j \in DOMAIN rendered[s] :
                          rendered[s][j].heading = SectionOf(invoked[s][i].role)

\* C5: every step that invokes an agent invokes the next role of the order
\* therapist, closure, routine planner, honesty, and only once the responses
\* of all earlier roles are rendered; every step that renders a section
\* renders the section of the next role of that order, with that role's
\* response.
C5_FixedOrder ==
    [][\A s \in Sessions :
          /\ (invoked'[s] # invoked[s] /\ invoked'[s] # <<>>) =>
                /\ Len(invoked'[s]) = Len(invoked[s]) + 1
                /\ SubSeq(invoked'[s], 1, Len(invoked[s])) = invoked[s]
                /\ Len(invoked'[s]) <= Len(RoleOrder)
                /\ invoked'[s][Len(invoked'[s])].role = RoleOrder[Len(invoked'[s])]
                /\ Len(rendered[s]) = Len(invoked[s])
                /\ rendered'[s] = rendered[s]
          /\ (rendered'[s] # rendered[s] /\ rendered'[s] # <<>>) =>
                /\ Len(rendered'[s]) = Len(rendered[s]) + 1
                /\ SubSeq(rendered'[s], 1, Len(rendered[s])) = rendered[s]
                /\ Len(rendered'[s]) = Len(invoked[s])
                /\ invoked[s][Len(invoked[s])].role = RoleOrder[Len(rendered'[s])]
                /\ rendered'[s][Len(rendered'[s])] =
                      [heading |-> SectionOf(RoleOrder[Len(rendered'[s])]),
                       content |-> invoked[s][Len(invoked[s])].result]
                /\ invoked'[s] = invoked[s]
      ]_vars

C5_Witness ==
    \E s \in Sessions :
        /\ pc[s] = "done"
        /\ Len(rendered[s]) = 4
        /\ [i \in 1..4 |-> invoked[s][i].role] = RoleOrder

\* C6: when neither the secrets key nor the environment variable yields a
\* non-empty value, every session stays before the page or on the
\* configuration error, which names both remediation hints; the page with
\* the button is never reached, no agent is constructed and none is invoked.
C6_NoCredentialRefuses ==
    (~Truthy(IF secrets = Raises THEN NoneVal ELSE secrets) /\ ~Truthy(env)) =>
        \A s \in Sessions :
            /\ pc[s] \in {"start", "config_error"}
            /\ pc[s] = "config_error" =>
                  /\ KeyError \in Range(notices[s])
                  /\ SecretsHint \in Range(notices[s])
                  /\ EnvHint \in Range(notices[s])
            /\ agents[s] = NoAgents
            /\ invoked[s] = <<>>
            /\ rendered[s] = <<>>
            /\ written[s] = <<>>

C6_Witness ==
    \E s \in Sessions :
        /\ secrets = "" /\ env = ""
        /\ pc[s] = "config_error"
        /\ SecretsHint \in Range(notices[s]) /\ EnvHint \in Range(notices[s])

\* C7: the materializer holds exactly the handles of the attachments whose
\* write succeeded, in upload order, and one log record per failed write;
\* once the loop is over all attachments were processed (n-k handles, k
\* records), the run goes on to the agents without aborting, and every agent
\* invoked receives exactly those handles.
C7_Materializer ==
    \A s \in Sessions :
        /\ all_images[s] = KeptHandles(uploaded_files[s], written[s])
        /\ Len(logged[s]) = Failures(written[s])
        /\ Len(all_images[s]) = Len(written[s]) - Failures(written[s])
        /\ pc[s] \in {"run", "render", "crashed", "done"} =>
              Len(written[s]) = Len(uploaded_files[s])
        /\ pc[s] \in {"render", "crashed", "done"} => invoked[s] # <<>>
        /\ written[s] # <<>> => pc[s] # "aborted"
        /\ \A i \in DOMAIN invoked[s] :
              invoked[s][i].images = KeptHandles(uploaded_files[s], written[s])

C7_Witness ==
    \E s \in Sessions :
        /\ Len(uploaded_files[s]) = 4
        /\ Len(written[s]) = 4 /\ Failures(written[s]) = 1
        /\ Len(all_images[s]) = 3 /\ Len(logged[s]) = 1
        /\ invoked[s] # <<>> /\ Len(invoked[s][1].images) = 3

\* C8: whenever an agent reads the file behind an image handle, the file
\* holds the bytes of the attachment the handle was made for.
C8_OwnBytes ==
    \A s \in Sessions :
        \A i \in DOMAIN invoked[s] :
            \A j \in DOMAIN invoked[s][i].read :
                invoked[s][i].read[j] = KeptFiles(uploaded_files[s], written[s])[j].data

\* C9: initialize_agents yields four agents or four empty values; after a
\* failed construction the run is aborted with the initialization error, no
\* image written and no agent invoked; agents are invoked only when all four
\* were constructed.
C9_AllOrNothing ==
    \A s \in Sessions :
        /\ agents[s] = NoAgents \/ AllAgents(agents[s])
        /\ (InCycle(s) /\ pc[s] # "init" /\ consent[s] /\ ~AllAgents(agents[s])) =>
              /\ pc[s] = "aborted"
              /\ InitError \in Range(notices[s])
              /\ written[s] = <<>> /\ all_images[s] = <<>>
              /\ invoked[s] = <<>> /\ rendered[s] = <<>>
        /\ invoked[s] # <<>> => AllAgents(agents[s])

C9_Witness ==
    \E s \in Sessions :
        /\ pc[s] = "aborted" /\ consent[s]
        /\ user_input[s] # "" /\ uploaded_files[s] # <<>>
        /\ agents[s] = NoAgents
        /\ InitError \in Range(notices[s])

\* C10: in every state the roles invoked so far and the sections rendered so
\* far are prefixes of the order therapist, closure, routine planner, honesty,
\* no role is invoked twice, and a section is rendered only for a role whose
\* invocation returned content, showing that content.
C10_Prefixes ==
    \A s \in Sessions :
        /\ Len(invoked[s]) <= Len(RoleOrder)
        /\ \A i \in DOMAIN invoked[s] : invoked[s][i].role = RoleOrder[i]
        /\ \A i, j \in DOMAIN invoked[s] :
              invoked[s][i].role = invoked[s][j].role => i = j
        /\ Len(rendered[s]) <= Len(invoked[s])
        /\ \A i \in DOMAIN rendered[s] :
              /\ rendered[s][i].heading = SectionOf(RoleOrder[i])
              /\ invoked[s][i].result \in Contents
              /\ rendered[s][i].content = invoked[s][i].result

C10_Witness ==
    \E s \in Sessions :
        /\ pc[s] = "crashed"
        /\ Len(invoked[s]) = 3 /\ Len(rendered[s]) = 2
        /\ invoked[s][3].result = Raises

====
